---- MODULE Spec2Model ----
(***************************************************************************)
(* A model of koota's World (packages/core/src/world/world.ts) and of the  *)
(* generated column-store accessors (trait/utils/create-accessors.ts).     *)
(*                                                                         *)
(* World objects are the values 1..MaxWorlds; a world object exists once   *)
(* createWorld has constructed it and keeps existing after destroy().      *)
(* The entity index, the trait registry, the mask layer, the Query class   *)
(* and the world index are imported by world.ts but are not among the      *)
(* source files; they are modelled from the specification (sections 4.1 to *)
(* 4.4) and are marked so in MODEL_MAP.json.                               *)
(***************************************************************************)
EXTENDS Integers, Sequences, FiniteSets, TLC

\* ------------------------------------------------------------------ bounds
MaxWorlds == 2
MaxRows == 2
MaxGen == 1
MaxHandles == 2
MaxTrackers == 2
MaxFreeIds == 2
MaxIndex == 1

\* --------------------------------------------------------------- universes
WorldObjs == 1..MaxWorlds
Null == "null"
\* No id yet: the world object is not constructed.
NoId == 0 - 1
\* null where an entity is expected (World.worldEntity is null! at line 41).
NoEntity == [gen |-> NoId, wid |-> NoId, row |-> NoId]
IsExcluded == "IsExcluded"
Traits == {"A"}
Callbacks == {"cb1", "cb2"}

All(t) == [mod |-> "All", trait |-> t]
Not(t) == [mod |-> "Not", trait |-> t]
\* The modifiers of the trackers createRemoved() and createAdded() return.
Removed(t) == [mod |-> "Removed", trait |-> t]
Added(t) == [mod |-> "Added", trait |-> t]

\* The parameter lists the callers pass to world.query and query.subscribe.
QueryInputs == { <<All("A")>>, <<Not("A")>> }
\* The trait lists the callers pass to createWorld, init, spawn, add, remove.
TraitLists == { <<>>, <<"A">> }
InitLists == { <<>>, <<"A">> }
\* The parameter lists cacheQuery is called with.
CacheInputs == { <<All("A")>> }
\* The parameter lists of the tracker queries the systems run every frame.
TrackInputs == { <<Removed("A")>>, <<Added("A")>> }

EmptyMap == [k \in {} |-> 0]
Range(s) == { s[i] : i \in DOMAIN s }

VARIABLES
    worldId,          \* World.#id of each world object (NoId: not constructed)
    isInitialized,    \* World.#isInitialized
    ctx,              \* World[$internal]
    worldIndex,       \* universe.worldIndex
    worlds,           \* universe.worlds (0 is a hole of the array)
    cachedQueries,    \* universe.cachedQueries
    trackingCursor,   \* the process-wide tracking cursor
    subscribeThis,    \* the world the shared query.subscribe is bound to
    handles,          \* the unsubscribe closures handed out, in order
    stale,            \* a value world.spawn returned, since destroyed or
                      \* discarded, that the caller kept (NoEntity: none)
    last,             \* the last operation and what it returned
    notes,            \* the subscriber calls the last operation made
    store,            \* a trait's column store (one array per schema field)
    held,             \* the row as it was before the last generated setter ran
    acc,              \* the last generated setter call and what it returned
    got               \* what the generated getter returned since that call

worldVars == << worldId, isInitialized, ctx, worldIndex, worlds, cachedQueries,
                trackingCursor, subscribeThis, handles, stale, last, notes >>
accVars == << store, held, acc, got >>
vars == << worldId, isInitialized, ctx, worldIndex, worlds, cachedQueries,
           trackingCursor, subscribeThis, handles, stale, last, notes,
           store, held, acc, got >>

\* ------------------------------------------------------------ entity index
\* An entity packs { generation, world-id, row-index }.
packEntity(wid, gen, row) == [gen |-> gen, wid |-> wid, row |-> row]

createEntityIndex(wid) ==
    [worldId |-> wid, maxId |-> 0, gens |-> EmptyMap, alive |-> {}, free |-> <<>>]

\* The row the next allocation uses: a free row if any, else a new one.
nextRow(ix) == IF ix.free # <<>> THEN ix.free[Len(ix.free)] ELSE ix.maxId

canAllocate(ix) == ix.free # <<>> \/ ix.maxId < MaxRows

allocateEntity(ix) ==
    LET row == nextRow(ix)
        recycled == ix.free # <<>>
        gens == IF recycled THEN ix.gens ELSE ix.gens @@ (row :> 0)
    IN  [index |-> [ix EXCEPT !.maxId = IF recycled THEN @ ELSE @ + 1,
                              !.gens = gens,
                              !.alive = @ \cup {row},
                              !.free = IF recycled THEN SubSeq(@, 1, Len(@) - 1) ELSE @],
         entity |-> packEntity(ix.worldId, gens[row], row)]

isEntityAlive(ix, e) ==
    /\ e.row \in ix.alive
    /\ ix.gens[e.row] = e.gen
    /\ ix.worldId = e.wid

releaseEntity(ix, e) ==
    IF ~isEntityAlive(ix, e) THEN ix
    ELSE [ix EXCEPT !.alive = @ \ {e.row},
                    !.free = Append(@, e.row),
                    !.gens[e.row] = @ + 1]

getAliveEntities(ix) == { packEntity(ix.worldId, ix.gens[r], r) : r \in ix.alive }

\* ------------------------------------------------------------- world index
allocateWorldId(wi) ==
    IF wi.freeIds # <<>>
    THEN [index |-> [wi EXCEPT !.freeIds = SubSeq(@, 1, Len(@) - 1)],
          id |-> wi.freeIds[Len(wi.freeIds)]]
    ELSE [index |-> [wi EXCEPT !.nextId = @ + 1], id |-> wi.nextId]

releaseWorldId(wi, id) == [wi EXCEPT !.freeIds = Append(@, id)]

\* ---------------------------------------------------- World[$internal] value
NewCtx(wid) ==
    [entityIndex |-> createEntityIndex(wid),
     entityMasks |-> EmptyMap,
     bitflag |-> 1,
     componentRecords |-> EmptyMap,
     queriesHashMap |-> EmptyMap,
     trackingSnapshots |-> EmptyMap,
     dirtyMasks |-> {},
     changedMasks |-> {},
     worldEntity |-> NoEntity]

\* The state an operation threads through its calls: the world object, its
\* internal context, and the subscriber calls made so far.
Thread(w, c, out) == [w |-> w, c |-> c, out |-> out]

\* ---------------------------------------------------------- trait registry
registerComponent(c, t) ==
    IF t \in DOMAIN c.componentRecords THEN c
    ELSE [c EXCEPT !.componentRecords = @ @@ (t :> c.bitflag),
                   !.bitflag = @ * 2]

hasBit(c, row, t) ==
    /\ t \in DOMAIN c.componentRecords
    /\ row \in DOMAIN c.entityMasks
    /\ c.componentRecords[t] \in c.entityMasks[row]

\* ------------------------------------------------------------ query engine
createQueryHash(params) ==
    [all  |-> { p.trait : p \in { x \in Range(params) : x.mod = "All" } },
     none |-> { p.trait : p \in { x \in Range(params) : x.mod = "Not" } },
     added |-> { p.trait : p \in { x \in Range(params) : x.mod = "Added" } },
     removed |-> { p.trait : p \in { x \in Range(params) : x.mod = "Removed" } }]

Hashes == { createQueryHash(p) : p \in QueryInputs }

RECURSIVE SetToSeq(_)
SetToSeq(S) == IF S = {} THEN <<>>
               ELSE LET x == CHOOSE y \in S : TRUE IN <<x>> \o SetToSeq(S \ {x})
HashSeq == SetToSeq(Hashes)

\* predicate_Q of a live entity: the query's all-of and none-of bits, and the
\* hidden IsExcluded tag unset.
check(c, h, e) ==
    /\ isEntityAlive(c.entityIndex, e)
    /\ ~hasBit(c, e.row, IsExcluded)
    /\ \A t \in h.all : hasBit(c, e.row, t)
    /\ \A t \in h.none : ~hasBit(c, e.row, t)

Matching(c, h) == { e \in getAliveEntities(c.entityIndex) : check(c, h, e) }

\* The tracker ids, in the order the modules created them at load.
RemovedTracker == 0
AddedTracker == 1

isTracking(h) == h.added # {} \/ h.removed # {}

TrackersOf(h) ==
    (IF h.added # {} THEN {AddedTracker} ELSE {})
        \cup (IF h.removed # {} THEN {RemovedTracker} ELSE {})

\* Whether the snapshot of tracker id has trait t's bit for the row.
inSnapshot(c, id, row, t) ==
    /\ id \in DOMAIN c.trackingSnapshots
    /\ row \in DOMAIN c.trackingSnapshots[id]
    /\ t \in DOMAIN c.componentRecords
    /\ c.componentRecords[t] \in c.trackingSnapshots[id][row]

\* The predicate with the tracker layers folded in: Added(t) is bit set now
\* and not in the snapshot, Removed(t) is bit unset now and set in the snapshot.
checkTracked(c, h, e) ==
    /\ check(c, h, e)
    /\ \A t \in h.added :
          hasBit(c, e.row, t) /\ ~inSnapshot(c, AddedTracker, e.row, t)
    /\ \A t \in h.removed :
          ~hasBit(c, e.row, t) /\ inSnapshot(c, RemovedTracker, e.row, t)

\* A run that leaves the snapshots where they were.
consumeNothing(c, h) == c

\* Consume-on-read: the snapshots of the query's trackers advance to the
\* current masks.
consume(c, h) ==
    [c EXCEPT !.trackingSnapshots =
        [i \in DOMAIN @ |-> IF i \in TrackersOf(h) THEN c.entityMasks ELSE @[i]]]

\* query.run(world): the result, and the world after it.
run(c, h) ==
    IF ~isTracking(h)
    THEN [c |-> c, result |-> c.queriesHashMap[h].entities]
    ELSE [c |-> consume(c, h),
          result |-> { e \in getAliveEntities(c.entityIndex) : checkTracked(c, h, e) }]

\* new Query(world, parameters): a query without tracked modifiers keeps a
\* maintained result set.
NewQuery(c, params) ==
    [parameters |-> params,
     entities |-> IF isTracking(createQueryHash(params)) THEN {}
                  ELSE Matching(c, createQueryHash(params)),
     subscriptions |-> <<>>]

\* One subscriber call, with what a read made inside the callback sees.
Note(s, h, q, cb, e, kind) ==
    [tw |-> s.w, h |-> h, cb |-> cb, e |-> e, kind |-> kind,
     inResult |-> e \in q.entities,
     matches |-> check(s.c, h, e)]

Notify(s, h, q, e, kind) ==
    [i \in 1..Len(q.subscriptions) |-> Note(s, h, q, q.subscriptions[i], e, kind)]

\* query.add(entity): insert, then call the subscribers.
QueryAdd(s, h, e) ==
    LET q == [s.c.queriesHashMap[h] EXCEPT !.entities = @ \cup {e}]
    IN  [s EXCEPT !.c.queriesHashMap[h] = q, !.out = @ \o Notify(s, h, q, e, "added")]

\* query.remove(entity): drop, then call the subscribers.
QueryRemove(s, h, e) ==
    LET q == [s.c.queriesHashMap[h] EXCEPT !.entities = @ \ {e}]
    IN  [s EXCEPT !.c.queriesHashMap[h] = q, !.out = @ \o Notify(s, h, q, e, "removed")]

QueryUpdate(s, h, e) ==
    LET was == e \in s.c.queriesHashMap[h].entities
        now == check(s.c, h, e)
    IN  IF now /\ ~was THEN QueryAdd(s, h, e)
        ELSE IF was /\ ~now THEN QueryRemove(s, h, e)
        ELSE s

\* Incremental maintenance: every cached query re-checks the entity.
RECURSIVE RefreshFrom(_, _, _)
RefreshFrom(s, e, i) ==
    IF i > Len(HashSeq) THEN s
    ELSE IF HashSeq[i] \in DOMAIN s.c.queriesHashMap
         THEN RefreshFrom(QueryUpdate(s, HashSeq[i], e), e, i + 1)
         ELSE RefreshFrom(s, e, i + 1)

RefreshQueries(s, e) == RefreshFrom(s, e, 1)

\* -------------------------------------------------------------- mask layer
addComponent(s, e, t) ==
    LET c == registerComponent(s.c, t)
        bit == c.componentRecords[t]
    IN  IF bit \in c.entityMasks[e.row] THEN [s EXCEPT !.c = c]
        ELSE RefreshQueries([s EXCEPT !.c = [c EXCEPT !.entityMasks[e.row] = @ \cup {bit}]], e)

removeComponent(s, e, t) ==
    IF ~hasBit(s.c, e.row, t) THEN s
    ELSE RefreshQueries(
             [s EXCEPT !.c.entityMasks[e.row] = @ \ {s.c.componentRecords[t]}], e)

RECURSIVE addComponents(_, _, _)
addComponents(s, e, ts) ==
    IF ts = <<>> THEN s
    ELSE addComponents(addComponent(s, e, Head(ts)), e, Tail(ts))

RECURSIVE removeComponents(_, _, _)
removeComponents(s, e, ts) ==
    IF ts = <<>> THEN s
    ELSE removeComponents(removeComponent(s, e, Head(ts)), e, Tail(ts))

\* The traits an entity carries, in bitflag order.
RECURSIVE CarriedFrom(_, _, _)
CarriedFrom(c, row, bit) ==
    IF bit >= c.bitflag THEN <<>>
    ELSE LET t == CHOOSE x \in DOMAIN c.componentRecords : c.componentRecords[x] = bit
         IN  (IF bit \in c.entityMasks[row] THEN <<t>> ELSE <<>>)
             \o CarriedFrom(c, row, bit * 2)

Carried(c, row) == CarriedFrom(c, row, 1)

\* ------------------------------------------------------- entity life cycle
\* createEntity(world, ...components): the entity, and the world after it.
createEntity(s, ts) ==
    LET a == allocateEntity(s.c.entityIndex)
        e == a.entity
        s1 == [s EXCEPT !.c.entityIndex = a.index,
                        !.c.entityMasks = (e.row :> {}) @@ @]
    IN  [s |-> addComponents(RefreshQueries(s1, e), e, ts), entity |-> e]

\* destroyEntity(world, entity): remove every trait, leave every query, free.
destroyEntity(s, e) ==
    IF ~isEntityAlive(s.c.entityIndex, e) THEN s
    ELSE LET s1 == removeComponents(s, e, Carried(s.c, e.row))
             s2 == [s1 EXCEPT !.c.entityIndex = releaseEntity(@, e)]
         IN  RefreshQueries(s2, e)

RECURSIVE destroyEntities(_, _)
destroyEntities(s, es) ==
    IF es = {} THEN s
    ELSE LET e == CHOOSE x \in es : \A y \in es : x.row <= y.row
         IN  destroyEntities(destroyEntity(s, e), es \ {e})

\* ------------------------------------------------------- universe.worlds
\* worlds[id] = w on a JS array: assigning past the end leaves holes.
SetAt(arr, i, w) ==
    IF i < Len(arr) THEN [arr EXCEPT ![i + 1] = w]
    ELSE arr \o [k \in 1..(i - Len(arr)) |-> 0] \o <<w>>

\* Array.prototype.indexOf: the first position holding w, or -1.
indexOf(arr, w) ==
    IF \E k \in 1..Len(arr) : arr[k] = w
    THEN (CHOOSE k \in 1..Len(arr) : arr[k] = w /\ \A j \in 1..(k - 1) : arr[j] # w) - 1
    ELSE -1

\* Array.prototype.splice(i, 1): a negative i counts from the end.
splice1(arr, i) ==
    LET start == IF i < 0 THEN (IF Len(arr) + i < 0 THEN 0 ELSE Len(arr) + i) ELSE i
    IN  IF start >= Len(arr) THEN arr
        ELSE SubSeq(arr, 1, start) \o SubSeq(arr, start + 2, Len(arr))

\* ------------------------------------------------------------ unsubscribe
\* An unsubscribe closure captures one Query object and one callback.  Once
\* the world drops that Query object from its hash map (reset, or init
\* overwriting the entry), the closure is Inert: deleting from the set of an
\* unreachable object changes no world.
Handle(cw, tw, h, cb) ==
    [cw |-> cw, tw |-> tw, h |-> h, cb |-> cb, attached |-> TRUE, called |-> FALSE]

Inert(k) == [cw |-> 0, tw |-> 0, h |-> Null, cb |-> Null, attached |-> FALSE,
             called |-> k.called]

Detach(hs, w, replaced) ==
    [i \in DOMAIN hs |->
        IF hs[i].attached /\ hs[i].tw = w /\ hs[i].h \in replaced THEN Inert(hs[i])
        ELSE hs[i]]

\* Set.prototype.delete on the insertion-ordered subscription set.
SetDelete(seq, x) ==
    LET F[i \in 0..Len(seq)] ==
            IF i = 0 THEN <<>>
            ELSE IF seq[i] = x THEN F[i - 1] ELSE Append(F[i - 1], seq[i])
    IN  F[Len(seq)]

\* Set.prototype.add on the insertion-ordered subscription set.
SetAdd(seq, x) == IF x \in Range(seq) THEN seq ELSE Append(seq, x)

\* ------------------------------------------------------------ World methods
\* setTrackingMasks(world, id): the tracker's snapshot is a copy of the
\* entity masks as they are now.
setTrackingMasks(c) == c.entityMasks

\* setTrackingMasks(world, i) for every i below the cursor (lines 71-74).
initTrackingMasks(c) ==
    LET tracked == 0..(trackingCursor - 1)
    IN  [c EXCEPT !.trackingSnapshots =
                      [i \in tracked |-> setTrackingMasks(c)] @@ @,
                  !.dirtyMasks = @ \cup tracked,
                  !.changedMasks = @ \cup tracked]

\* A Query per entry of universe.cachedQueries (lines 77-80).
initCachedQueries(c) ==
    [c EXCEPT !.queriesHashMap =
        [h \in DOMAIN cachedQueries |-> NewQuery(c, cachedQueries[h])] @@ @]

\* The world entity init() creates (line 86).
initWorldEntity(s, ts) == createEntity(s, <<IsExcluded>> \o ts)

\* The body of init() past the isInitialized guard (lines 70-86).
initBody(s, ts) ==
    LET c == initCachedQueries(initTrackingMasks(s.c))
        r == initWorldEntity([s EXCEPT !.c = c], ts)
    IN  [r.s EXCEPT !.c.worldEntity = r.entity]

\* resetClear leaving the cached queries in place.
resetClearKeepsQueries(c) ==
    [c EXCEPT !.componentRecords = EmptyMap,
              !.trackingSnapshots = EmptyMap,
              !.dirtyMasks = {},
              !.changedMasks = {}]

\* What reset() clears of the registries, caches and masks (lines 146-156).
resetClear(c) ==
    [c EXCEPT !.componentRecords = EmptyMap,
              !.queriesHashMap = EmptyMap,
              !.trackingSnapshots = EmptyMap,
              !.dirtyMasks = {},
              !.changedMasks = {}]

\* The world entity reset() creates, without the IsExcluded tag.
resetWorldEntityUntagged(s) == createEntity(s, <<>>)

\* The world entity reset() creates (line 159).
resetWorldEntity(s) == createEntity(s, <<IsExcluded>>)

\* reset() without line 142: the bitflag counter is not set back.
resetBodyKeepsBitflag(s) ==
    LET c1 == [s.c EXCEPT !.entityIndex = createEntityIndex(worldId[s.w]),
                          !.entityMasks = EmptyMap]
        s1 == destroyEntities([s EXCEPT !.c = c1], getAliveEntities(c1.entityIndex))
        r == resetWorldEntity([s1 EXCEPT !.c = resetClear(s1.c)])
    IN  [r.s EXCEPT !.c.worldEntity = r.entity]

\* reset() (lines 135-160).
resetBody(s) ==
    LET c1 == [s.c EXCEPT !.entityIndex = createEntityIndex(worldId[s.w]),
                          !.entityMasks = EmptyMap,
                          !.bitflag = 1]
        s1 == destroyEntities([s EXCEPT !.c = c1], getAliveEntities(c1.entityIndex))
        r == resetWorldEntity([s1 EXCEPT !.c = resetClear(s1.c)])
    IN  [r.s EXCEPT !.c.worldEntity = r.entity]

\* destroy() leaving the world entity that reset() created alive.
destroyKeepsWorldEntity(s) == [s EXCEPT !.c.worldEntity = NoEntity]

\* The end of destroy(): the world entity is destroyed and the reference
\* cleared (lines 131-132).
destroyWorldEntity(s) ==
    [destroyEntity(s, s.c.worldEntity) EXCEPT !.c.worldEntity = NoEntity]

\* destroy() as far as it touches the world's own context.
destroyBody(s) ==
    destroyWorldEntity(resetBody(destroyEntities(s, getAliveEntities(s.c.entityIndex))))

\* world.has(entity) (lines 95-99, the entity branch).
has(w, e) == isEntityAlive(ctx[w].entityIndex, e)

\* world.entities (lines 53-55).
entities(w) == getAliveEntities(ctx[w].entityIndex)

Op(op, w, arg, ret) == [op |-> op, w |-> w, arg |-> arg, ret |-> ret]

Constructed(w) == worldId[w] # NoId
Live(w) == Constructed(w) /\ isInitialized[w]

\* The live entities world.spawn returned: all but the world entity.
Spawned(w) == entities(w) \ {ctx[w].worldEntity}

\* The caller keeps at most one stale entity value, with the world object
\* that issued it; on each destroy or discard it may swap it for a new one.
Kept(w, e) == [w |-> w, e |-> e]

universeVars == << cachedQueries, trackingCursor >>

\* ------------------------------------------------------------------ actions
\* createWorld(components): new World(components).
CreateWorld(w, ts) ==
    /\ ~Constructed(w)
    /\ \A v \in WorldObjs : v < w => Constructed(v)
    /\ LET a == allocateWorldId(worldIndex)
           s == initBody(Thread(w, NewCtx(a.id), <<>>), ts)
       IN  /\ worldIndex' = a.index
           /\ worldId' = [worldId EXCEPT ![w] = a.id]
           /\ subscribeThis' = w
           /\ isInitialized' = [isInitialized EXCEPT ![w] = TRUE]
           /\ worlds' = SetAt(worlds, a.id, w)
           /\ ctx' = [ctx EXCEPT ![w] = s.c]
           /\ notes' = s.out
           /\ last' = Op("createWorld", w, Null, a.id)
    /\ UNCHANGED << universeVars, handles, stale, accVars >>

\* init() without the guard of line 65.
InitWorldUnguarded(w, ts) ==
    /\ Constructed(w)
    /\ canAllocate(ctx[w].entityIndex)
    /\ LET s == initBody(Thread(w, ctx[w], <<>>), ts)
       IN  /\ isInitialized' = [isInitialized EXCEPT ![w] = TRUE]
           /\ worlds' = SetAt(worlds, worldId[w], w)
           /\ ctx' = [ctx EXCEPT ![w] = s.c]
           /\ handles' = Detach(handles, w, DOMAIN cachedQueries)
           /\ notes' = s.out
    /\ last' = Op("init", w, Null, isInitialized[w])
    /\ UNCHANGED << universeVars, worldId, worldIndex, subscribeThis, stale, accVars >>

\* world.init(components)
InitWorld(w, ts) ==
    /\ Constructed(w)
    /\ isInitialized[w] \/ canAllocate(ctx[w].entityIndex)
    /\ IF isInitialized[w]
       THEN /\ notes' = <<>>
            /\ UNCHANGED << isInitialized, worlds, ctx, handles >>
       ELSE LET s == initBody(Thread(w, ctx[w], <<>>), ts)
            IN  /\ isInitialized' = [isInitialized EXCEPT ![w] = TRUE]
                /\ worlds' = SetAt(worlds, worldId[w], w)
                /\ ctx' = [ctx EXCEPT ![w] = s.c]
                /\ handles' = Detach(handles, w, DOMAIN cachedQueries)
                /\ notes' = s.out
    /\ last' = Op("init", w, Null, isInitialized[w])
    /\ UNCHANGED << universeVars, worldId, worldIndex, subscribeThis, stale, accVars >>

\* world.spawn(...components)
Spawn(w, ts) ==
    /\ Live(w)
    /\ canAllocate(ctx[w].entityIndex)
    /\ LET r == createEntity(Thread(w, ctx[w], <<>>), ts)
       IN  /\ ctx' = [ctx EXCEPT ![w] = r.s.c]
           /\ notes' = r.s.out
           /\ last' = Op("spawn", w, Null, r.entity)
    /\ UNCHANGED << universeVars, worldId, isInitialized, worldIndex, worlds,
                    subscribeThis, handles, stale, accVars >>

\* entity.add(component) on an entity the caller holds
EntityAdd(w, e, t) ==
    /\ Live(w)
    /\ e \in Spawned(w)
    /\ has(w, e)
    /\ LET s == addComponent(Thread(w, ctx[w], <<>>), e, t)
       IN  /\ ctx' = [ctx EXCEPT ![w] = s.c]
           /\ notes' = s.out
    /\ last' = Op("entity.add", w, Null, Null)
    /\ UNCHANGED << universeVars, worldId, isInitialized, worldIndex, worlds,
                    subscribeThis, handles, stale, accVars >>

\* entity.remove(component)
EntityRemove(w, e, t) ==
    /\ Live(w)
    /\ e \in Spawned(w)
    /\ has(w, e)
    /\ LET s == removeComponent(Thread(w, ctx[w], <<>>), e, t)
       IN  /\ ctx' = [ctx EXCEPT ![w] = s.c]
           /\ notes' = s.out
    /\ last' = Op("entity.remove", w, Null, Null)
    /\ UNCHANGED << universeVars, worldId, isInitialized, worldIndex, worlds,
                    subscribeThis, handles, stale, accVars >>

\* entity.destroy()
EntityDestroy(w, e, keep) ==
    /\ Live(w)
    /\ e \in Spawned(w)
    /\ has(w, e)
    /\ e.gen < MaxGen
    /\ LET s == destroyEntity(Thread(w, ctx[w], <<>>), e)
       IN  /\ ctx' = [ctx EXCEPT ![w] = s.c]
           /\ notes' = s.out
    /\ stale' = IF keep THEN Kept(w, e) ELSE stale
    /\ last' = Op("entity.destroy", w, Null, Null)
    /\ UNCHANGED << universeVars, worldId, isInitialized, worldIndex, worlds,
                    subscribeThis, handles, accVars >>

\* world.add(...components): worldEntity.add
WorldAdd(w, ts) ==
    /\ Live(w)
    /\ LET s == addComponents(Thread(w, ctx[w], <<>>), ctx[w].worldEntity, ts)
       IN  /\ ctx' = [ctx EXCEPT ![w] = s.c]
           /\ notes' = s.out
    /\ last' = Op("world.add", w, Null, Null)
    /\ UNCHANGED << universeVars, worldId, isInitialized, worldIndex, worlds,
                    subscribeThis, handles, stale, accVars >>

\* world.remove(...components): worldEntity.remove
WorldRemove(w, ts) ==
    /\ Live(w)
    /\ LET s == removeComponents(Thread(w, ctx[w], <<>>), ctx[w].worldEntity, ts)
       IN  /\ ctx' = [ctx EXCEPT ![w] = s.c]
           /\ notes' = s.out
    /\ last' = Op("world.remove", w, Null, Null)
    /\ UNCHANGED << universeVars, worldId, isInitialized, worldIndex, worlds,
                    subscribeThis, handles, stale, accVars >>

\* world.reset()
Reset(w, keep) ==
    /\ Live(w)
    /\ keep \in Spawned(w) \cup {NoEntity}
    /\ LET s == resetBody(Thread(w, ctx[w], <<>>))
       IN  /\ ctx' = [ctx EXCEPT ![w] = s.c]
           /\ notes' = s.out
    /\ handles' = Detach(handles, w, DOMAIN ctx[w].queriesHashMap)
    /\ stale' = IF keep # NoEntity THEN Kept(w, keep) ELSE stale
    /\ last' = Op("reset", w, worldId[w], Null)
    /\ UNCHANGED << universeVars, worldId, isInitialized, worldIndex, worlds,
                    subscribeThis, accVars >>

\* world.destroy()
Destroy(w, keep) ==
    /\ Constructed(w)
    /\ keep \in Spawned(w) \cup {NoEntity}
    /\ \A r \in ctx[w].entityIndex.alive : ctx[w].entityIndex.gens[r] < MaxGen
    /\ Len(worldIndex.freeIds) < MaxFreeIds
    /\ LET s == destroyBody(Thread(w, ctx[w], <<>>))
       IN  /\ ctx' = [ctx EXCEPT ![w] = s.c]
           /\ notes' = s.out
    /\ isInitialized' = [isInitialized EXCEPT ![w] = FALSE]
    /\ worldIndex' = releaseWorldId(worldIndex, worldId[w])
    /\ worlds' = splice1(worlds, indexOf(worlds, w))
    /\ handles' = Detach(handles, w, DOMAIN ctx[w].queriesHashMap)
    /\ stale' = IF keep # NoEntity THEN Kept(w, keep) ELSE stale
    /\ last' = Op("destroy", w, isInitialized[w], Null)
    /\ UNCHANGED << universeVars, worldId, subscribeThis, accVars >>

\* world.query(...parameters)
Query(w, params) ==
    /\ Live(w)
    /\ TrackersOf(createQueryHash(params)) \subseteq DOMAIN ctx[w].trackingSnapshots
    /\ LET h == createQueryHash(params)
           c == IF h \in DOMAIN ctx[w].queriesHashMap THEN ctx[w]
                ELSE [ctx[w] EXCEPT !.queriesHashMap = @ @@ (h :> NewQuery(ctx[w], params))]
           r == run(c, h)
       IN  /\ ctx' = [ctx EXCEPT ![w] = r.c]
           /\ last' = Op("query", w, h, r.result)
    /\ notes' = <<>>
    /\ UNCHANGED << universeVars, worldId, isInitialized, worldIndex, worlds,
                    subscribeThis, handles, stale, accVars >>

\* subscribe putting the new callback first.
subscribePrepend(subs, cb) == IF cb \in Range(subs) THEN subs ELSE <<cb>> \o subs

\* query(key) creating the Query on a miss, as query(...parameters) does.
QueryKeyCreates(w, params) ==
    /\ Live(w)
    /\ TrackersOf(createQueryHash(params)) \subseteq DOMAIN ctx[w].trackingSnapshots
    /\ LET h == createQueryHash(params)
           c == IF h \in DOMAIN ctx[w].queriesHashMap THEN ctx[w]
                ELSE [ctx[w] EXCEPT !.queriesHashMap = @ @@ (h :> NewQuery(ctx[w], params))]
           r == run(c, h)
       IN  /\ ctx' = [ctx EXCEPT ![w] = r.c]
           /\ last' = Op("queryKey", w, h, r.result)
    /\ notes' = <<>>
    /\ UNCHANGED << universeVars, worldId, isInitialized, worldIndex, worlds,
                    subscribeThis, handles, stale, accVars >>

\* world.query(key) with a string key (lines 219-222): the key is the hash
\* createQueryHash gives the parameters.
QueryKey(w, params) ==
    /\ Live(w)
    /\ TrackersOf(createQueryHash(params)) \subseteq DOMAIN ctx[w].trackingSnapshots
    /\ LET h == createQueryHash(params)
       IN  IF h \notin DOMAIN ctx[w].queriesHashMap
           THEN /\ ctx' = ctx
                /\ last' = Op("queryKey", w, h, {})
           ELSE LET r == run(ctx[w], h)
                IN  /\ ctx' = [ctx EXCEPT ![w] = r.c]
                    /\ last' = Op("queryKey", w, h, r.result)
    /\ notes' = <<>>
    /\ UNCHANGED << universeVars, worldId, isInitialized, worldIndex, worlds,
                    subscribeThis, handles, stale, accVars >>

\* Where subscribe adds the callback (line 177).
subscribeAdd(subs, cb) == SetAdd(subs, cb)

\* cw.query.subscribe(parameters, callback): query is the one module-level
\* function, and Object.assign (line 166) rebinds its subscribe property to
\* the world under construction.
Subscribe(cw, params, cb) ==
    /\ Live(cw)
    /\ Len(handles) < MaxHandles
    /\ LET tw == subscribeThis
           h == createQueryHash(params)
           c == IF h \in DOMAIN ctx[tw].queriesHashMap THEN ctx[tw]
                ELSE [ctx[tw] EXCEPT !.queriesHashMap = @ @@ (h :> NewQuery(ctx[tw], params))]
       IN  /\ ctx' = [ctx EXCEPT ![tw] =
                        [c EXCEPT !.queriesHashMap[h].subscriptions = subscribeAdd(@, cb)]]
           /\ handles' = Append(handles, Handle(cw, tw, h, cb))
    /\ last' = Op("subscribe", cw, Len(handles) + 1, Null)
    /\ notes' = <<>>
    /\ UNCHANGED << universeVars, worldId, isInitialized, worldIndex, worlds,
                    subscribeThis, stale, accVars >>

\* What the returned closure does to the captured set (line 179).
unsubscribeDelete(subs, cb) == SetDelete(subs, cb)

\* Calling the closure subscribe returned.
Unsubscribe(i) ==
    /\ i \in DOMAIN handles
    /\ LET k == handles[i]
       IN  ctx' = IF k.attached
                  THEN [ctx EXCEPT ![k.tw].queriesHashMap[k.h].subscriptions =
                                        unsubscribeDelete(@, k.cb)]
                  ELSE ctx
    /\ handles' = [handles EXCEPT ![i].called = TRUE]
    /\ last' = Op("unsubscribe", handles[i].cw, i, handles[i].called)
    /\ notes' = <<>>
    /\ UNCHANGED << universeVars, worldId, isInitialized, worldIndex, worlds,
                    subscribeThis, stale, accVars >>

\* --------------------------------------------------- column-store accessors
\* Object.keys(schema), in order.
Fields == << "x", "y" >>
\* The keys a value object passed to a setter may have.
Keys == {"x", "y", "z"}
\* JS values as the accessors see them: only identity (!==) matters.
Undefined == "undefined"
NaN == "NaN"
\* The values a caller supplies under each key.
ValsOf(k) == IF k = "x" THEN {"1", NaN} ELSE {"1"}
Values == { v \in UNION { [K -> {"1", NaN}] : K \in SUBSET Keys } :
              \A k \in DOMAIN v : v[k] \in ValsOf(k) }
Rows == 0..MaxIndex

\* A store whose arrays are still empty: every read gives undefined.
FreshStore == [k \in Range(Fields) |-> [r \in Rows |-> Undefined]]

\* value.k
Prop(value, k) == IF k \in DOMAIN value THEN value[k] ELSE Undefined

\* a !== b
StrictNe(a, b) == a # b \/ a = NaN \/ b = NaN

\* A setter that writes every schema key, present in the value or not.
RECURSIVE setEveryKey(_, _, _, _)
setEveryKey(keys, index, st, value) ==
    IF keys = <<>> THEN st
    ELSE setEveryKey(Tail(keys), index,
             [st EXCEPT ![Head(keys)][index] = Prop(value, Head(keys))], value)

\* A setter that writes the present keys at every row.
RECURSIVE setEveryRow(_, _, _, _)
setEveryRow(keys, index, st, value) ==
    IF keys = <<>> THEN st
    ELSE LET k == Head(keys)
         IN  setEveryRow(Tail(keys), index,
                 IF k \in DOMAIN value
                 THEN [st EXCEPT ![k] = [r \in DOMAIN @ |-> value[k]]] ELSE st,
                 value)

\* The function createSetFunction(schema) generates, applied to
\* (index, store, value): one guarded assignment per schema key.
RECURSIVE createSetFunction(_, _, _, _)
createSetFunction(keys, index, st, value) ==
    IF keys = <<>> THEN st
    ELSE LET k == Head(keys)
         IN  createSetFunction(Tail(keys), index,
                 IF k \in DOMAIN value THEN [st EXCEPT ![k][index] = value[k]] ELSE st,
                 value)

\* The function createFastSetFunction(schema) generates.
RECURSIVE createFastSetFunction(_, _, _, _)
createFastSetFunction(keys, index, st, value) ==
    IF keys = <<>> THEN st
    ELSE LET k == Head(keys)
         IN  createFastSetFunction(Tail(keys), index,
                 [st EXCEPT ![k][index] = Prop(value, k)], value)

\* One generated statement per key of the change-detecting setter.
RECURSIVE setFunctionBody(_, _, _, _, _)
setFunctionBody(keys, index, st, value, changed) ==
    IF keys = <<>> THEN [store |-> st, changed |-> changed]
    ELSE LET k == Head(keys)
             differs == StrictNe(st[k][index], Prop(value, k))
         IN  setFunctionBody(Tail(keys), index,
                 IF differs THEN [st EXCEPT ![k][index] = Prop(value, k)] ELSE st,
                 value, changed \/ differs)

\* The function createFastSetWithChangeDetectionFunction(schema) generates.
createFastSetWithChangeDetectionFunction(keys, index, st, value) ==
    setFunctionBody(keys, index, st, value, FALSE)

\* The function createGetFunction(schema) generates: an object literal with
\* every schema key.
createGetFunction(keys, index, st) == [k \in Range(keys) |-> st[k][index]]

Call(op, index, value, ret) == [op |-> op, index |-> index, value |-> value, ret |-> ret]
Read(index, ret) == [index |-> index, ret |-> ret]
NoRead == Read(NoId, [k \in Range(Fields) |-> Undefined])

\* set(index, store, value)
AccSet(i, v) ==
    /\ store' = createSetFunction(Fields, i, store, v)
    /\ held' = createGetFunction(Fields, i, store)
    /\ acc' = Call("set", i, v, FALSE)
    /\ got' = NoRead
    /\ UNCHANGED worldVars

\* fastSet(index, store, value)
AccFastSet(i, v) ==
    /\ store' = createFastSetFunction(Fields, i, store, v)
    /\ held' = createGetFunction(Fields, i, store)
    /\ acc' = Call("fastSet", i, v, FALSE)
    /\ got' = NoRead
    /\ UNCHANGED worldVars

\* fastSetWithChangeDetection(index, store, value)
AccSetWithChangeDetection(i, v) ==
    /\ LET r == createFastSetWithChangeDetectionFunction(Fields, i, store, v)
       IN  /\ store' = r.store
           /\ acc' = Call("fastSetWithChangeDetection", i, v, r.changed)
    /\ held' = createGetFunction(Fields, i, store)
    /\ got' = NoRead
    /\ UNCHANGED worldVars

\* get(index, store)
AccGet(i) ==
    /\ got' = Read(i, createGetFunction(Fields, i, store))
    /\ UNCHANGED << worldVars, store, held, acc >>

\* The universe when the first world is created: either nothing was
\* registered, or the modules created their trackers and cached queries at
\* load (createRemoved() at module level in the systems).
cacheAll(P) ==
    [h \in { createQueryHash(p) : p \in P } |-> CHOOSE p \in P : createQueryHash(p) = h]

Universes ==
    { [cachedQueries |-> EmptyMap, cursor |-> 0],
      [cachedQueries |-> cacheAll(CacheInputs), cursor |-> MaxTrackers] }

WorldInit ==
    /\ worldId = [w \in WorldObjs |-> NoId]
    /\ isInitialized = [w \in WorldObjs |-> FALSE]
    /\ ctx = [w \in WorldObjs |-> NewCtx(NoId)]
    /\ worldIndex = [nextId |-> 0, freeIds |-> <<>>]
    /\ worlds = <<>>
    /\ \E u \in Universes : cachedQueries = u.cachedQueries /\ trackingCursor = u.cursor
    /\ subscribeThis = 0
    /\ handles = <<>>
    /\ stale = Kept(0, NoEntity)
    /\ last = Op("load", 0, Null, Null)
    /\ notes = <<>>

AccIdle ==
    /\ store = FreshStore
    /\ held = createGetFunction(Fields, 0, FreshStore)
    /\ acc = Call("none", NoId, EmptyMap, FALSE)
    /\ got = NoRead

Init == WorldInit /\ AccIdle

\* One world object: its life cycle, its entities and its queries.
Solo == {1}

Next ==
    \/ \E w \in Solo, ts \in InitLists : CreateWorld(w, ts)
    \/ \E w \in Solo, ts \in TraitLists : Spawn(w, ts)
    \/ \E w \in Solo : \E e \in Spawned(w) : \E t \in Traits : EntityAdd(w, e, t)
    \/ \E w \in Solo : \E e \in Spawned(w) : \E t \in Traits : EntityRemove(w, e, t)
    \/ \E w \in Solo : \E e \in Spawned(w) : \E keep \in BOOLEAN : EntityDestroy(w, e, keep)
    \/ \E w \in Solo, t \in Traits : WorldAdd(w, <<t>>)
    \/ \E w \in Solo, t \in Traits : WorldRemove(w, <<t>>)
    \/ \E w \in Solo : \E keep \in Spawned(w) \cup {NoEntity} : Reset(w, keep)
    \/ \E w \in Solo, p \in QueryInputs : Query(w, p)

Spec == Init /\ [][Next]_vars

\* One world object, its entities, and the subscribers of one query.
NextSubs ==
    \/ \E w \in Solo : CreateWorld(w, <<>>)
    \/ \E w \in Solo, ts \in TraitLists : Spawn(w, ts)
    \/ \E w \in Solo : \E e \in Spawned(w) : \E t \in Traits : EntityAdd(w, e, t)
    \/ \E w \in Solo : \E e \in Spawned(w) : \E t \in Traits : EntityRemove(w, e, t)
    \/ \E w \in Solo : \E e \in Spawned(w) : EntityDestroy(w, e, FALSE)
    \/ \E w \in Solo, cb \in Callbacks : Subscribe(w, <<All("A")>>, cb)
    \/ \E i \in 1..MaxHandles : Unsubscribe(i)

SpecSubs == Init /\ [][NextSubs]_vars

\* Several world objects sharing the one query function: subscriptions made
\* through any of them, and the mutations that should notify them.
NextShared ==
    \/ \E w \in WorldObjs : CreateWorld(w, <<>>)
    \/ \E w \in WorldObjs, ts \in TraitLists : Spawn(w, ts)
    \/ \E w \in WorldObjs : \E e \in Spawned(w) : EntityDestroy(w, e, FALSE)
    \/ \E w \in WorldObjs : Reset(w, NoEntity)
    \/ \E w \in WorldObjs : Subscribe(w, <<All("A")>>, "cb1")
    \/ \E i \in 1..MaxHandles : Unsubscribe(i)
    \/ \E w \in WorldObjs : Query(w, <<All("A")>>)

SpecShared == Init /\ [][NextShared]_vars

\* One world object through creation, destruction and re-initialization,
\* with its entities; the other world objects are only created.
NextLife ==
    \/ \E w \in WorldObjs : CreateWorld(w, <<>>)
    \/ \E w \in Solo, ts \in InitLists : InitWorld(w, ts)
    \/ \E w \in Solo : Destroy(w, NoEntity)
    \/ \E w \in Solo, ts \in TraitLists : Spawn(w, ts)
    \/ \E w \in Solo : \E e \in Spawned(w) : EntityDestroy(w, e, FALSE)

SpecLife == Init /\ [][NextLife]_vars

\* Several world objects: creation, destruction and re-initialization.
NextWorlds ==
    \/ \E w \in WorldObjs : CreateWorld(w, <<>>)
    \/ \E w \in WorldObjs : InitWorld(w, <<>>)
    \/ \E w \in WorldObjs : Destroy(w, NoEntity)

SpecWorlds == Init /\ [][NextWorlds]_vars

\* One world object, its entities, and the tracker queries run on it.
NextTrack ==
    \/ \E w \in Solo : CreateWorld(w, <<>>)
    \/ \E w \in Solo, ts \in TraitLists : Spawn(w, ts)
    \/ \E w \in Solo : \E e \in Spawned(w) : \E t \in Traits : EntityAdd(w, e, t)
    \/ \E w \in Solo : \E e \in Spawned(w) : \E t \in Traits : EntityRemove(w, e, t)
    \/ \E w \in Solo : \E e \in Spawned(w) : EntityDestroy(w, e, FALSE)
    \/ \E w \in Solo, p \in TrackInputs : Query(w, p)
    \/ \E w \in Solo, p \in QueryInputs \cup TrackInputs : QueryKey(w, p)

SpecTrack == Init /\ [][NextTrack]_vars

\* The generated accessors of one trait's store, called in any order.
NextAcc ==
    \/ \E i \in Rows, v \in Values : AccSet(i, v)
    \/ \E i \in Rows, v \in Values : AccFastSet(i, v)
    \/ \E i \in Rows, v \in Values : AccSetWithChangeDetection(i, v)
    \/ \E i \in Rows : AccGet(i)

InitAcc == Init /\ cachedQueries = EmptyMap

SpecAcc == InitAcc /\ [][NextAcc]_vars

\* ------------------------------------------------------------------ claims
\* A world freshly constructed with no initial traits, under the same id.
FreshWorld(w) == initBody(Thread(w, NewCtx(worldId[w]), <<>>), <<>>).c

\* C1: on an initialized world, after any sequence of spawn, add, remove,
\* destroy (and reset), every world.query call returns exactly the alive
\* entities of that world whose masks satisfy the query's predicate, and every
\* cached result the next call would return is that set too.
C1_QueryReturnsMatching ==
    /\ last.op = "query" => last.ret = Matching(ctx[last.w], last.arg)
    /\ \A w \in WorldObjs : Live(w) =>
          \A h \in DOMAIN ctx[w].queriesHashMap :
              ctx[w].queriesHashMap[h].entities = Matching(ctx[w], h)

\* A query call that returned an entity while an earlier one is destroyed.
C1_Witness ==
    /\ last.op = "query"
    /\ last.ret # {}
    /\ last.ret = Matching(ctx[last.w], last.arg)
    /\ stale.e # NoEntity
    /\ \E h \in DOMAIN ctx[last.w].queriesHashMap : ctx[last.w].queriesHashMap[h].entities = {}

\* C2: an initialized world owns exactly one alive world entity, it carries
\* the hidden IsExcluded tag, and no query result contains it.
C2_WorldEntityExcluded ==
    \A w \in WorldObjs : Live(w) =>
        LET c == ctx[w]
        IN  /\ c.worldEntity # NoEntity
            /\ isEntityAlive(c.entityIndex, c.worldEntity)
            /\ { e \in getAliveEntities(c.entityIndex) : hasBit(c, e.row, IsExcluded) }
                   = {c.worldEntity}
            /\ \A h \in DOMAIN c.queriesHashMap : c.worldEntity \notin c.queriesHashMap[h].entities
            /\ (last.op = "query" /\ last.w = w) => c.worldEntity \notin last.ret

\* A query for the entities without A, run after an entity was destroyed or
\* discarded and while the world entity itself carries no A: the world entity
\* passes the mask test of the parameters and is still left out.
C2_Witness ==
    /\ last.op = "query"
    /\ last.arg = createQueryHash(<<Not("A")>>)
    /\ ~hasBit(ctx[last.w], ctx[last.w].worldEntity.row, "A")
    /\ ctx[last.w].worldEntity \notin last.ret
    /\ stale.e # NoEntity
    /\ ~isEntityAlive(ctx[last.w].entityIndex, stale.e)

\* C3: an entity value world.spawn returned and that has since been
\* destroyed or discarded is never alive again: world.has of it is false.
C3_StaleNeverAlive ==
    stale.e # NoEntity => ~has(stale.w, stale.e)

\* C4: when destroy() returns on an initialized world, the world has no
\* alive entity, is not initialized, its worldEntity reference is cleared, and
\* its id is on the world index's free list, where the next createWorld
\* takes it.
C4_DestroyReleases ==
    (last.op = "destroy" /\ last.arg = TRUE) =>
        /\ entities(last.w) = {}
        /\ ~isInitialized[last.w]
        /\ ctx[last.w].worldEntity = NoEntity
        /\ worldId[last.w] \in Range(worldIndex.freeIds)
        /\ allocateWorldId(worldIndex).id = worldId[last.w]

\* A world created after the destroy of an initialized world, holding the id
\* the destroyed one released.
C4_Witness ==
    /\ last.op = "createWorld"
    /\ last.w # 1
    /\ ~isInitialized[1]
    /\ worldId[last.w] = worldId[1]
    /\ entities(1) = {}
    /\ ctx[1].worldEntity = NoEntity

Subscribers(w, h) ==
    IF h \in DOMAIN ctx[w].queriesHashMap
    THEN Range(ctx[w].queriesHashMap[h].subscriptions) ELSE {}

\* The handles not yet called whose Query object the world still holds.
Pending == { i \in DOMAIN handles : handles[i].attached /\ ~handles[i].called }

\* C6: a callback registered through a world's query.subscribe and not yet
\* unsubscribed is invoked with (entity, added) by every mutation of that
\* world that makes an entity newly satisfy the parameters, before the
\* mutating call returns; here the mutation is a spawn whose entity matches.
C6_SubscribersNotified ==
    \A i \in Pending :
        (/\ last.op = "spawn"
         /\ handles[i].cw = last.w
         /\ last.ret \in Matching(ctx[last.w], handles[i].h))
        => \E n \in Range(notes) :
               n.cb = handles[i].cb /\ n.e = last.ret /\ n.kind = "added"

\* C7: once a handle has been called its callback is not invoked by a later
\* mutation (unless another handle, not yet called, registered the same
\* callback); calling a handle a second time changes nothing; and calling a
\* handle leaves every other callback of the same query registered.
C7_UnsubscribeHandle ==
    [][ /\ \A n \in Range(notes') : \A i \in DOMAIN handles :
              (/\ handles[i].called /\ handles[i].attached
               /\ n.cb = handles[i].cb /\ n.tw = handles[i].tw /\ n.h = handles[i].h)
              => \E j \in Pending :
                     /\ handles[j].cb = n.cb
                     /\ handles[j].tw = n.tw /\ handles[j].h = n.h
        /\ (last'.op = "unsubscribe" /\ last'.ret = TRUE) => ctx' = ctx
        /\ last'.op = "unsubscribe" =>
              \A w \in WorldObjs : \A h \in DOMAIN ctx[w].queriesHashMap :
                  Subscribers(w, h) \ {handles[last'.arg].cb} \subseteq Subscribers(w, h)'
      ]_vars

\* C8: when one mutation changes the membership of a query with several
\* subscribers, they are called in the order they were registered, and each
\* call sees the mutation's new state: the entity's mask already passes
\* (added) or fails (removed) the predicate and the result already has or
\* lacks the entity.
C8_RegistrationOrder ==
    /\ \A i, j \in Pending : \A p, q \in DOMAIN notes :
          (/\ i < j
           /\ handles[i].tw = handles[j].tw /\ handles[i].h = handles[j].h
           /\ handles[i].cb # handles[j].cb
           /\ \A m \in Pending \ {i, j} : handles[m].cb \notin {handles[i].cb, handles[j].cb}
           /\ notes[p].cb = handles[i].cb /\ notes[q].cb = handles[j].cb
           /\ notes[p].tw = handles[i].tw /\ notes[q].tw = handles[i].tw
           /\ notes[p].h = handles[i].h /\ notes[q].h = handles[i].h
           /\ notes[p].e = notes[q].e /\ notes[p].kind = notes[q].kind)
          => p < q
    /\ \A n \in Range(notes) :
          /\ n.kind = "added" => (n.inResult /\ n.matches)
          /\ n.kind = "removed" => (~n.inResult /\ ~n.matches)

\* One mutation that called two subscribers, the one registered first being
\* cb2: the order is that of registration, not of the callbacks' names.
C8_Witness ==
    /\ Len(notes) = 2
    /\ notes[1].cb = "cb2" /\ notes[2].cb = "cb1"
    /\ notes[1].e = notes[2].e
    /\ notes[1].kind = "removed"
    /\ Cardinality(Pending) = 2
    /\ handles[1].cb = "cb2"

\* C9: the change-detecting setter returns true exactly when some schema
\* field of the row held a value different from the one supplied (so a
\* repeated call with the same value returns false), and afterwards every
\* field of the row holds the supplied value.
C9_ChangeDetection ==
    acc.op = "fastSetWithChangeDetection" =>
        /\ acc.ret = (\E k \in Range(Fields) : held[k] # Prop(acc.value, k))
        /\ \A k \in Range(Fields) : store[k][acc.index] = Prop(acc.value, k)

\* C10: writing v to a row with the generated set function and then reading
\* the row with the generated get function gives a record with exactly the
\* schema's fields, each field present in v equal to v's value and each field
\* absent from v equal to what the row held before the write.
C10_SetGetRoundTrip ==
    (acc.op = "set" /\ got.index = acc.index) =>
        /\ DOMAIN got.ret = Range(Fields)
        /\ \A k \in Range(Fields) :
              got.ret[k] = IF k \in DOMAIN acc.value THEN acc.value[k] ELSE held[k]

\* A read after a write that replaced x, left y (which held a value) alone
\* and carried a key that is no schema field.
C10_Witness ==
    /\ acc.op = "set"
    /\ got.index = acc.index
    /\ DOMAIN acc.value = {"x", "z"}
    /\ held["x"] # acc.value["x"]
    /\ held["y"] # Undefined
    /\ got.ret["y"] = held["y"]

C12_UniqueWorldIds ==
    /\ \A v, w \in WorldObjs :
          (v # w /\ Live(v) /\ Live(w)) => worldId[v] # worldId[w]
    /\ \A w \in WorldObjs : Live(w) => worldId[w] \notin Range(worldIndex.freeIds)

\* C13: for every initialized world w, universe.worlds[w.id] is w, whatever
\* other worlds have been created or destroyed.
C13_WorldsRouteById ==
    \A w \in WorldObjs : Live(w) =>
        /\ worldId[w] < Len(worlds)
        /\ worlds[worldId[w] + 1] = w

\* C14: between two resets a world holds at most one Query per parameter
\* hash: world.query and world.query.subscribe create it on the first use of
\* the hash and reuse it afterwards, a callback given to subscribe is attached
\* to the Query that world.query of that world runs, and only reset removes
\* an entry.
C14_OneQueryPerHash ==
    [][ /\ last'.op = "query" =>
              LET was == ctx[last'.w].queriesHashMap
                  now == ctx'[last'.w].queriesHashMap
              IN  /\ last'.arg \in DOMAIN now
                  /\ last'.arg \in DOMAIN was => now[last'.arg] = was[last'.arg]
        /\ last'.op = "subscribe" =>
              LET was == ctx[last'.w].queriesHashMap
                  now == ctx'[last'.w].queriesHashMap
                  k == handles'[last'.arg]
              IN  /\ k.h \in DOMAIN now
                  /\ k.cb \in Range(now[k.h].subscriptions)
                  /\ k.h \in DOMAIN was =>
                        /\ now[k.h].entities = was[k.h].entities
                        /\ Range(was[k.h].subscriptions) \subseteq Range(now[k.h].subscriptions)
        /\ last'.op # "reset" =>
              \A w \in WorldObjs :
                  DOMAIN ctx[w].queriesHashMap \subseteq DOMAIN ctx'[w].queriesHashMap
      ]_vars

\* C15: after reset() the world is in the state of a world freshly
\* initialized with no initial traits: it holds a cached Query for every entry
\* of universe.cachedQueries and tracking masks for every tracker id below the
\* tracking cursor, as init() establishes them.
C15_ResetIsFreshInit ==
    last.op = "reset" =>
        /\ ctx[last.w] = FreshWorld(last.w)
        /\ DOMAIN cachedQueries \subseteq DOMAIN ctx[last.w].queriesHashMap
        /\ \A i \in 0..(trackingCursor - 1) :
              /\ i \in DOMAIN ctx[last.w].trackingSnapshots
              /\ i \in ctx[last.w].dirtyMasks
              /\ i \in ctx[last.w].changedMasks

\* C16: init() on an initialized world changes nothing: no entity is
\* spawned, no query is created, no tracking mask is added and
\* universe.worlds is unchanged; the initialization work runs only when the
\* world was not initialized.
C16_InitIdempotent ==
    [][ /\ (last'.op = "init" /\ last'.ret = TRUE) =>
              UNCHANGED << ctx, worlds, isInitialized, worldId, worldIndex, handles >>
        /\ (last'.op = "init" /\ last'.ret = FALSE) =>
              /\ isInitialized'[last'.w]
              /\ isEntityAlive(ctx'[last'.w].entityIndex, ctx'[last'.w].worldEntity)
              /\ worlds'[worldId[last'.w] + 1] = last'.w
      ]_vars

\* init() called on an initialized world that has a spawned entity, in a
\* universe with cached queries and trackers.
C16_Witness ==
    /\ last.op = "init"
    /\ last.ret = TRUE
    /\ Spawned(last.w) # {}
    /\ cachedQueries # EmptyMap
    /\ trackingCursor > 0

\* C17: the function createSetFunction generates writes only the columns of
\* the schema fields present in value, and only at row index: every absent
\* field keeps its stored value, every other row of every column is unchanged,
\* and keys of value that are no schema fields are ignored.
C17_SetFrame ==
    [][ acc'.op = "set" =>
          /\ DOMAIN store' = Range(Fields)
          /\ \A k \in Range(Fields) :
                /\ DOMAIN store'[k] = DOMAIN store[k]
                /\ \A r \in DOMAIN store[k] :
                      store'[k][r] = IF r = acc'.index /\ k \in DOMAIN acc'.value
                                     THEN acc'.value[k] ELSE store[k][r]
      ]_vars

\* A write of x and of a key that is no schema field, at a row whose y held a
\* value, while another row holds a different x.
C17_Witness ==
    /\ acc.op = "set"
    /\ DOMAIN acc.value = {"x", "z"}
    /\ held["y"] # Undefined
    /\ store["y"][acc.index] = held["y"]
    /\ \E r \in Rows : r # acc.index /\ store["x"][r] \notin {Undefined, acc.value["x"]}

\* C18: world.query(key) with a string key never creates a query: when no
\* Query is stored under the key it returns an empty result and changes
\* nothing of the world; when one is stored it returns what running that
\* Query returns.
C18_QueryByKey ==
    [][ last'.op = "queryKey" =>
          LET was == ctx[last'.w].queriesHashMap
          IN  /\ last'.arg \notin DOMAIN was =>
                    /\ last'.ret = {}
                    /\ UNCHANGED << ctx, worlds, isInitialized, worldId, worldIndex, handles >>
              /\ last'.arg \in DOMAIN was =>
                    /\ last'.ret = run(ctx[last'.w], last'.arg).result
                    /\ DOMAIN ctx'[last'.w].queriesHashMap = DOMAIN was
                    /\ ctx'[last'.w].queriesHashMap[last'.arg] = was[last'.arg]
      ]_vars

\* A key under which no Query is stored, although a query with those
\* parameters would match an entity: the call returned nothing and stored
\* nothing.
C18_Witness ==
    /\ last.op = "queryKey"
    /\ last.ret = {}
    /\ last.arg \notin DOMAIN ctx[last.w].queriesHashMap
    /\ Matching(ctx[last.w], last.arg) # {}
    /\ ~isTracking(last.arg)

====
